---- MODULE Spec2Model ----
(***************************************************************************)
(* Veins: one websocket shared by many (key, callback) subscriptions.      *)
(* The state is the fields of one Veins instance, the sockets WSHelper has *)
(* handed out, and the host's pending work (auth promises, timers,         *)
(* FileReader loads). Every handler of the class is one action.            *)
(***************************************************************************)
EXTENDS Integers, Sequences, FiniteSets, TLC

\* ----------------------------------------------------------------- bounds
\* sockets WSHelper creates during one run
MaxSockets == 2
\* callbacks registered at a time, over all keys
MaxCallbacks == 2

\* ----------------------------------------------------------------- inputs
Keys == {"k1", "k2"}
UnknownKey == "unknown"
Callbacks == {"f", "g"}
Tokens == {"t1", "t2"}
Data == {"d1", "d2"}

\* ------------------------------------------------------- program constants
\* this.socket when there is no connection, and when one is being opened
Null == -1
False == 0
\* WebSocket.readyState
CONNECTING == 0
OPEN == 1
CLOSING == 2
CLOSED == 3
\* the code unsubscribe closes the socket with
NormalClosure == 1000

VARIABLES
    keys,         \* this.keys: key -> callbacks, in registration order
    keyOrder,     \* this.keys: its keys in the order Object.keys lists them
    close,        \* this.close
    ping,         \* this.ping: the interval handle, or 0
    socket,       \* this.socket: Null, False or the socket
    error,        \* whether an error callback was given to the constructor
    supported,    \* whether the host has WebSocket
    socks,        \* the sockets created, by identity
    intervals,    \* the setInterval handles not yet cleared
    authPending,  \* auth() promises not yet settled
    reconnects,   \* setTimeout(_open, 5000) timers not yet fired
    readers,      \* the texts FileReaders are reading, one load per text at a time
    registered,   \* per key, the callers' subscribe calls not yet undone by an unsubscribe
    last,         \* what the handler that ran last did
    iter          \* the for-of loop of handleMsg, while a callback it called runs

vars == <<keys, keyOrder, close, ping, socket, error, supported, socks,
          intervals, authPending, reconnects, readers, registered, last, iter>>

\* ----------------------------------------------------------------- frames
\* JSON.stringify of one control message, and of the array _sockOpen sends
Frame(type, key) == [array |-> FALSE, msgs |-> <<[_type |-> type, key |-> key]>>]
PingFrame == [array |-> FALSE, msgs |-> <<[_type |-> "ping"]>>]

RECURSIVE TrackMsgs(_)
TrackMsgs(order) ==
    IF order = <<>> THEN <<>>
    ELSE <<[_type |-> "track", key |-> Head(order)]>> \o TrackMsgs(Tail(order))

\* ------------------------------------------------------- inbound payloads
\* The messages the backend sends: MessageStruct, with data or with error
DataMsgs == [key : {"k1"}, data : Data] \cup [key : {UnknownKey}, data : {"d1"}]
ErrorMsgs == [key : {"k1"}, error : {[code |-> 403, msg |-> "nope"]}]
Msgs == DataMsgs \cup ErrorMsgs

\* The JSON text of a message
Stringify(m) ==
    IF "error" \in DOMAIN m
    THEN "{\"key\":\"" \o m.key \o "\",\"error\":{\"code\":" \o ToString(m.error.code)
         \o ",\"msg\":\"" \o m.error.msg \o "\"}}"
    ELSE "{\"key\":\"" \o m.key \o "\",\"data\":\"" \o m.data \o "\"}"

\* A text JSON.parse rejects
Malformed == "{\"key\":"
\* What arrives as a string, and what arrives as a Blob
Texts == {"authorized", "pong", Malformed} \cup {Stringify(m) : m \in Msgs}
BlobTexts ==
    {Malformed} \cup {Stringify(m) : m \in [key : {"k1"}, data : {"d1"}]}

\* JSON.parse: whether it returns, and what
Parses(t) == \E m \in Msgs : Stringify(m) = t
Parse(t) == CHOOSE m \in Msgs : Stringify(m) = t

\* the template literal handleMsg hands to the error callback
ErrorText(e) == "Websocket failed: " \o e.msg \o " (" \o ToString(e.code) \o ")"

\* --------------------------------------------------------------- handlers
NoKey == ""
NoText == ""
\* what one handler did: the frames it sent, the callbacks and the error
\* callback it called, what it returned, whether it threw, the code it closed
\* the socket with
Did(op, key, cb, sock, text) ==
    [op |-> op, key |-> key, cb |-> cb, sock |-> sock, text |-> text,
     ret |-> "none", sent |-> <<>>, calls |-> <<>>, errs |-> <<>>,
     threw |-> FALSE, code |-> 0]

Truthy(s) == s # Null /\ s # False
ReadyState(s) == socks[s].readyState
\* a socket: its readyState, the token bound to its open handler until that
\* handler has run, whether its open event has fired, and whether the backend
\* has answered it "authorized"; and of what went out on it: the type of the
\* first message sent on it, and the keys the backend has been told to track
\* and not to untrack
SockRec(auth) ==
    [readyState |-> CONNECTING, auth |-> auth, opened |-> FALSE, authorized |-> FALSE,
     first |-> "none", tracked |-> {}]
ClosedSock ==
    [readyState |-> CLOSED, auth |-> NoText, opened |-> FALSE, authorized |-> FALSE,
     first |-> "none", tracked |-> {}]

\* the keys the backend tracks once it has read the messages of a frame
RECURSIVE Tracked(_, _)
Tracked(t, msgs) ==
    IF msgs = <<>> THEN t
    ELSE LET m == Head(msgs)
         IN  Tracked(IF m._type = "track" THEN t \cup {m.key}
                     ELSE IF m._type = "untrack" THEN t \ {m.key}
                     ELSE t,
                     Tail(msgs))
\* the sockets once the frame a handler sent, if it sent one, has gone out
Sent(ss, sent) ==
    IF sent = <<>> THEN ss
    ELSE [ss EXCEPT ![sent[1].sock] =
             [@ EXCEPT !.first = IF @ = "none" THEN sent[1].frame.msgs[1]._type ELSE @,
                       !.tracked = Tracked(@, sent[1].frame.msgs)]]

\* the array without its element at i: splice(i, 1)
Splice(list, i) == SubSeq(list, 1, i - 1) \o SubSeq(list, i + 1, Len(list))
\* the Object.keys order after delete
Without(order, key) == SelectSeq(order, LAMBDA k : k # key)
\* the first index holding cb, or 0
IndexOf(list, cb) ==
    IF \E i \in 1..Len(list) : list[i] = cb
    THEN CHOOSE i \in 1..Len(list) : list[i] = cb /\ \A j \in 1..(i - 1) : list[j] # cb
    ELSE 0
\* the number of callbacks registered under the keys of ks
RECURSIVE Registered(_)
Registered(ks) ==
    IF ks = {} THEN 0
    ELSE LET k == CHOOSE x \in ks : TRUE IN Len(keys[k]) + Registered(ks \ {k})

\* no loop of handleMsg is running: every callback it called has returned
NoIter ==
    [key |-> NoKey, data |-> "", i |-> 0, arrived |-> <<>>, calls |-> <<>>, removed |-> {}]

Init ==
    /\ keys = [k \in {} |-> <<>>]
    /\ keyOrder = <<>>
    /\ close = TRUE
    /\ ping = 0
    /\ socket = Null
    /\ error \in BOOLEAN
    /\ supported \in BOOLEAN
    /\ socks = <<>>
    /\ intervals = {}
    /\ authPending = 0
    /\ reconnects = 0
    /\ readers = {}
    /\ registered = [k \in Keys |-> 0]
    /\ last = Did("init", NoKey, "", 0, NoText)
    /\ iter = NoIter

\* _open: call auth(); what follows waits for the promise
Open == authPending' = authPending + 1

\* subscribe: this.keys once the callback is recorded
SubscribeKeys(key, callback) ==
    [k \in DOMAIN keys \cup {key} |->
        IF k # key THEN keys[k]
        ELSE IF key \in DOMAIN keys THEN Append(keys[key], callback)
        ELSE <<callback>>]

\* a mutant of SubscribeSent: the socket's readyState is not looked at
SubscribeSentAnyState(key) ==
    IF Truthy(socket)
    THEN <<[sock |-> socket, frame |-> Frame("track", key)]>>
    ELSE <<>>

\* subscribe: the frames it sends
SubscribeSent(key) ==
    IF Truthy(socket) /\ ReadyState(socket) = OPEN
    THEN <<[sock |-> socket, frame |-> Frame("track", key)]>>
    ELSE <<>>

\* a mutant of SubscribeOpens: it opens whenever this.socket is falsy
SubscribeOpensFalsy == ~Truthy(socket)

\* subscribe: whether it calls _open: there is no socket, and no socket is
\* being opened
SubscribeOpens == ~Truthy(socket) /\ socket = Null

\* subscribe(key, callback)
Subscribe(key, callback) ==
    /\ Registered(DOMAIN keys) < MaxCallbacks
    /\ keys' = SubscribeKeys(key, callback)
    /\ keyOrder' = IF key \in DOMAIN keys THEN keyOrder ELSE Append(keyOrder, key)
    /\ IF SubscribeOpens
       THEN socket' = False /\ Open
       ELSE UNCHANGED <<socket, authPending>>
    /\ last' = [Did("subscribe", key, callback, 0, NoText) EXCEPT
                   !.ret = "handle", !.sent = SubscribeSent(key)]
    /\ socks' = Sent(socks, SubscribeSent(key))
    /\ registered' = [registered EXCEPT ![key] = @ + 1]
    /\ UNCHANGED iter
    /\ UNCHANGED <<close, ping, error, supported, intervals, reconnects, readers>>

\* unsubscribe: whether the callback is in the key's list
Found(key, callback) == key \in DOMAIN keys /\ IndexOf(keys[key], callback) # 0
\* unsubscribe: the key's list once the callback is spliced out
Rest(key, callback) == Splice(keys[key], IndexOf(keys[key], callback))
\* unsubscribe: whether it removes the key's last callback
Gone(key, callback) == Found(key, callback) /\ Rest(key, callback) = <<>>

\* a mutant of UnsubscribeKeys: the emptied key is not deleted
UnsubscribeKeysKeepsEmpty(key, callback) ==
    IF ~Found(key, callback) THEN keys
    ELSE [keys EXCEPT ![key] = Rest(key, callback)]

\* unsubscribe: this.keys once the callback is removed
UnsubscribeKeys(key, callback) ==
    IF ~Found(key, callback) THEN keys
    ELSE IF Gone(key, callback) THEN [k \in DOMAIN keys \ {key} |-> keys[k]]
    ELSE [keys EXCEPT ![key] = Rest(key, callback)]

\* a mutant of UnsubscribeSent: the socket's readyState is not looked at
UnsubscribeSentAnyState(key, callback) ==
    IF Gone(key, callback) /\ Truthy(socket)
    THEN <<[sock |-> socket, frame |-> Frame("untrack", key)]>>
    ELSE <<>>

\* unsubscribe: the frames it sends
UnsubscribeSent(key, callback) ==
    IF Gone(key, callback) /\ Truthy(socket) /\ ReadyState(socket) = OPEN
    THEN <<[sock |-> socket, frame |-> Frame("untrack", key)]>>
    ELSE <<>>

\* a mutant of UnsubscribeCloses: a socket still connecting is left alone
UnsubscribeClosesOpenOnly(key, callback) ==
    /\ Gone(key, callback) /\ DOMAIN UnsubscribeKeys(key, callback) = {}
    /\ Truthy(socket) /\ ReadyState(socket) = OPEN

\* unsubscribe: whether it calls this.socket.close: it emptied the registry
\* and there is a socket
UnsubscribeCloses(key, callback) ==
    /\ Gone(key, callback) /\ DOMAIN UnsubscribeKeys(key, callback) = {}
    /\ Truthy(socket)

\* what unsubscribe(key, callback) does
Unsubscribed(key, callback) ==
    LET found == Found(key, callback)
        gone == Gone(key, callback)
        empty == gone /\ DOMAIN UnsubscribeKeys(key, callback) = {}
        closing == UnsubscribeCloses(key, callback)
    IN  /\ keys' = UnsubscribeKeys(key, callback)
        /\ keyOrder' = IF gone THEN Without(keyOrder, key) ELSE keyOrder
        /\ intervals' = IF empty /\ ping # 0 THEN intervals \ {ping} ELSE intervals
        /\ ping' = IF empty THEN 0 ELSE ping
        /\ close' = IF empty THEN TRUE ELSE close
        /\ socks' = IF closing /\ ReadyState(socket) \in {CONNECTING, OPEN}
                    THEN [Sent(socks, UnsubscribeSent(key, callback)) EXCEPT
                             ![socket].readyState = CLOSING]
                    ELSE Sent(socks, UnsubscribeSent(key, callback))
        /\ last' = [Did("unsubscribe", key, callback, IF closing THEN socket ELSE 0, NoText)
                       EXCEPT !.ret = IF found THEN "true" ELSE "false",
                              !.sent = UnsubscribeSent(key, callback),
                              !.code = IF closing THEN NormalClosure ELSE 0]
        /\ registered' = IF found THEN [registered EXCEPT ![key] = @ - 1] ELSE registered
        /\ UNCHANGED <<socket, error, supported, authPending, reconnects, readers>>

\* unsubscribe(key, callback), called directly or through the handle subscribe
\* returned, which makes this same call
Unsubscribe(key, callback) == Unsubscribed(key, callback) /\ UNCHANGED iter

\* auth() resolves with a token: the .then callback of _open
AuthResolve(auth) ==
    /\ authPending > 0
    /\ supported => Len(socks) < MaxSockets
    /\ authPending' = authPending - 1
    /\ IF ~supported
       THEN /\ socket' = False
            /\ last' = [Did("authResolve", NoKey, "", 0, auth) EXCEPT
                           !.errs = IF error THEN <<"Websockets not supported">> ELSE <<>>]
            /\ UNCHANGED <<socks, ping, intervals>>
       ELSE /\ socks' = Append(socks, SockRec(auth))
            /\ socket' = Len(socks) + 1
            /\ IF ping = 0
               THEN ping' = Len(socks) + 1 /\ intervals' = intervals \cup {Len(socks) + 1}
               ELSE UNCHANGED <<ping, intervals>>
            /\ last' = Did("authResolve", NoKey, "", Len(socks) + 1, auth)
    /\ UNCHANGED iter
    /\ UNCHANGED <<keys, keyOrder, close, error, supported, reconnects, readers, registered>>

\* auth() rejects: _open gave .then no rejection handler
AuthReject ==
    /\ authPending > 0
    /\ authPending' = authPending - 1
    /\ last' = [Did("authReject", NoKey, "", 0, NoText) EXCEPT !.threw = TRUE]
    /\ UNCHANGED iter
    /\ UNCHANGED <<keys, keyOrder, close, ping, socket, error, supported, socks,
                   intervals, reconnects, readers, registered>>

\* the interval callback: the frames it sends. send throws on a socket still
\* connecting and sends nothing on one closing or closed
PingSent ==
    IF Truthy(socket) /\ ReadyState(socket) = OPEN
    THEN <<[sock |-> socket, frame |-> PingFrame]>>
    ELSE <<>>

\* the interval _open set ticks
PingTick(h) ==
    /\ h \in intervals
    /\ last' = [Did("ping", NoKey, "", 0, NoText) EXCEPT
                   !.sent = PingSent,
                   !.threw = Truthy(socket) /\ ReadyState(socket) = CONNECTING]
    /\ socks' = Sent(socks, PingSent)
    /\ UNCHANGED iter
    /\ UNCHANGED <<keys, keyOrder, close, ping, socket, error, supported,
                   intervals, authPending, reconnects, readers, registered>>

\* the timeout _sockClose set fires
Reconnect ==
    /\ reconnects > 0
    /\ reconnects' = reconnects - 1
    /\ Open
    /\ last' = Did("reconnect", NoKey, "", 0, NoText)
    /\ UNCHANGED iter
    /\ UNCHANGED <<keys, keyOrder, close, ping, socket, error, supported, socks,
                   intervals, readers, registered>>

\* a mutant of OpenMsgs: only the first key is tracked
OpenMsgsFirstKey(auth) ==
    <<[_type |-> "connect", key |-> auth]>> \o TrackMsgs(SubSeq(keyOrder, 1, 1))

\* a mutant of OpenMsgs: the keys of the registry are not tracked
OpenMsgsConnectOnly(auth) == <<[_type |-> "connect", key |-> auth]>>

\* _sockOpen: the messages of the array it sends
OpenMsgs(auth) == <<[_type |-> "connect", key |-> auth]>> \o TrackMsgs(keyOrder)

\* _sockOpen: the frame it sends, the array of these messages
OpenSent(sock) ==
    <<[sock |-> sock, frame |-> [array |-> TRUE, msgs |-> OpenMsgs(socks[sock].auth)]]>>

\* _sockOpen(auth, sock): the socket's open event
SockOpen(sock) ==
    /\ sock \in DOMAIN socks
    /\ ReadyState(sock) = CONNECTING
    /\ socks' = Sent([socks EXCEPT ![sock] = [@ EXCEPT !.readyState = OPEN,
                                                        !.auth = NoText,
                                                        !.opened = TRUE]],
                     OpenSent(sock))
    /\ last' = [Did("open", NoKey, "", sock, NoText) EXCEPT !.sent = OpenSent(sock)]
    /\ UNCHANGED iter
    /\ UNCHANGED <<keys, keyOrder, close, ping, socket, error, supported, intervals,
                   authPending, reconnects, readers, registered>>

\* _sockClose: the socket's close event
SockClose(sock) ==
    /\ sock \in DOMAIN socks
    /\ ReadyState(sock) # CLOSED
    /\ socks' = [socks EXCEPT ![sock] = ClosedSock]
    /\ intervals' = IF ping # 0 THEN intervals \ {ping} ELSE intervals
    /\ IF close
       THEN socket' = Null /\ UNCHANGED <<close, reconnects>>
       ELSE close' = TRUE /\ reconnects' = reconnects + 1 /\ UNCHANGED socket
    /\ last' = Did("close", NoKey, "", sock, NoText)
    /\ UNCHANGED iter
    /\ UNCHANGED <<keys, keyOrder, ping, error, supported, authPending, readers,
                   registered>>

\* a mutant of HandleMsgErrs: the text leaves out the error's code
HandleMsgErrsNoCode(msg) ==
    IF "error" \in DOMAIN msg /\ error THEN <<"Websocket failed: " \o msg.error.msg>> ELSE <<>>

\* a mutant of HandleMsgCalls: the callbacks are called last registered first
HandleMsgCallsReversed(msg) ==
    IF "error" \notin DOMAIN msg /\ msg.key \in DOMAIN keys
    THEN [i \in 1..Len(keys[msg.key]) |->
             [cb |-> keys[msg.key][Len(keys[msg.key]) + 1 - i], data |-> msg.data]]
    ELSE <<>>

\* handleMsg(msg): what it hands the error callback
HandleMsgErrs(msg) ==
    IF "error" \in DOMAIN msg /\ error THEN <<ErrorText(msg.error)>> ELSE <<>>
\* handleMsg(msg): the callbacks it calls, each with its argument
HandleMsgCalls(msg) ==
    IF "error" \notin DOMAIN msg /\ msg.key \in DOMAIN keys
    THEN [i \in 1..Len(keys[msg.key]) |-> [cb |-> keys[msg.key][i], data |-> msg.data]]
    ELSE <<>>
\* JSON.parse(text), then handleMsg
ParseAndHandle(op, text) ==
    IF ~Parses(text)
    THEN [Did(op, NoKey, "", 0, text) EXCEPT !.threw = TRUE]
    ELSE [Did(op, NoKey, "", 0, text) EXCEPT
             !.errs = HandleMsgErrs(Parse(text)),
             !.calls = HandleMsgCalls(Parse(text))]

\* whether the socket can deliver a message event: it has opened, and is open
\* or, the closing handshake not yet done, closing
Receiving(sock) == socks[sock].opened /\ ReadyState(sock) \in {OPEN, CLOSING}

\* _sockMessage(sock, ev) with ev.data a string. The backend answers a
\* connect with one "authorized".
SockMessage(sock, text) ==
    /\ sock \in DOMAIN socks
    /\ Receiving(sock)
    /\ text = "authorized" => ~socks[sock].authorized
    /\ IF text = "authorized"
       THEN /\ close' = FALSE
            /\ socks' = [socks EXCEPT ![sock].authorized = TRUE]
            /\ last' = Did("message", NoKey, "", 0, text)
       ELSE /\ UNCHANGED <<close, socks>>
            /\ last' = IF text = "pong" THEN Did("message", NoKey, "", 0, text)
                       ELSE ParseAndHandle("message", text)
    /\ UNCHANGED iter
    /\ UNCHANGED <<keys, keyOrder, ping, socket, error, supported, intervals,
                   authPending, reconnects, readers, registered>>

\* _sockMessage(sock, ev) with ev.data a Blob: a FileReader starts reading it
SockBlob(sock, text) ==
    /\ sock \in DOMAIN socks
    /\ Receiving(sock)
    /\ text \notin readers
    /\ readers' = readers \cup {text}
    /\ last' = Did("blob", NoKey, "", 0, text)
    /\ UNCHANGED iter
    /\ UNCHANGED <<keys, keyOrder, close, ping, socket, error, supported, socks,
                   intervals, authPending, reconnects, registered>>

\* the loadend listener of a FileReader
LoadEnd(text) ==
    /\ text \in readers
    /\ readers' = readers \ {text}
    /\ last' = ParseAndHandle("loadend", text)
    /\ UNCHANGED iter
    /\ UNCHANGED <<keys, keyOrder, close, ping, socket, error, supported, socks,
                   intervals, authPending, reconnects, registered>>

Next ==
    \/ \E k \in Keys, cb \in Callbacks : Subscribe(k, cb)
    \/ \E k \in Keys, cb \in Callbacks : Unsubscribe(k, cb)
    \/ \E t \in Tokens : AuthResolve(t)
    \/ AuthReject
    \/ \E h \in intervals : PingTick(h)
    \/ Reconnect
    \/ \E s \in DOMAIN socks : SockOpen(s)
    \/ \E s \in DOMAIN socks : SockClose(s)
    \/ \E s \in DOMAIN socks, t \in Texts : SockMessage(s, t)
    \/ \E s \in DOMAIN socks, t \in BlobTexts : SockBlob(s, t)
    \/ \E t \in readers : LoadEnd(t)

Spec == Init /\ [][Next]_vars

\* ------------------------------------------------------------ vocabulary
\* The spec's connection states. Open: the socket is open and the backend has
\* answered "authorized".
TransportOpen == Truthy(socket) /\ ReadyState(socket) = OPEN
ConnOpen == TransportOpen /\ socks[socket].authorized

\* ------------------------------------------------------------- the claims

\* C1: a key is in the registry exactly when callers have a callback
\* registered under it, the registry lists as many callbacks for it as they
\* have registered, and no key maps to an empty list
C1_KeyIffCallback ==
    /\ DOMAIN keys \subseteq Keys
    /\ \A k \in Keys : k \in DOMAIN keys <=> registered[k] > 0
    /\ \A k \in DOMAIN keys : Len(keys[k]) >= 1 /\ Len(keys[k]) = registered[k]

\* C1 witness: an unsubscribe removed a key's last callback, another key stays
C1_Witness ==
    /\ last.op = "unsubscribe" /\ last.ret = "true"
    /\ last.key \notin DOMAIN keys
    /\ DOMAIN keys # {}

\* C2 as claimed: with the connection Open, a subscribe to a key that already
\* has a callback sends no frame
C2_SecondSubscribeSilent ==
    (last.op = "subscribe" /\ ConnOpen /\ Len(keys[last.key]) > 1) => last.sent = <<>>

\* whether this step is unsubscribe(key, callback) removing the key's last callback
RemovesLast == last'.op = "unsubscribe" /\ Gone(last'.key, last'.cb)
\* whether this step sent exactly one untrack frame for its key, on this.socket
SentOneUntrack ==
    last'.sent = <<[sock |-> socket, frame |-> Frame("untrack", last'.key)]>>

\* C3 as claimed: an unsubscribe sends one untrack frame exactly when it
\* removes the key's last callback with the connection Open, sends nothing
\* otherwise, and deletes the key when it removes its last callback
C3_UntrackIffLastAndOpen ==
    [][last'.op = "unsubscribe" =>
          /\ (RemovesLast /\ ConnOpen) => SentOneUntrack
          /\ ~(RemovesLast /\ ConnOpen) => last'.sent = <<>>
          /\ RemovesLast => last'.key \notin DOMAIN keys']_vars

\* C3 amended: the same with "the socket's readyState is 1" for Open, which
\* holds from the open event on, before the backend has answered "authorized"
C3_UntrackIffLastAndTransportOpen ==
    [][last'.op = "unsubscribe" =>
          /\ (RemovesLast /\ TransportOpen) => SentOneUntrack
          /\ ~(RemovesLast /\ TransportOpen) => last'.sent = <<>>
          /\ RemovesLast => last'.key \notin DOMAIN keys'
          /\ ~RemovesLast /\ last'.key \in DOMAIN keys => last'.key \in DOMAIN keys']_vars

\* C3 witness: an untrack frame went out on a socket not yet authorized
C3_Witness ==
    /\ last.op = "unsubscribe"
    /\ Len(last.sent) = 1
    /\ ~socks[last.sent[1].sock].authorized
    /\ last.key \notin DOMAIN keys

\* C4 as claimed: the close event of a socket that unsubscribe closed (it is
\* CLOSING) leaves this.socket null and no reconnect timer pending, whatever
\* arrived in between
C4_RequestedCloseNeverReconnects ==
    [][(last'.op = "close" /\ ReadyState(last'.sock) = CLOSING) =>
          (socket' = Null /\ reconnects' = 0)]_vars

\* C5 as claimed: a close event the caller did not ask for (the socket was
\* CONNECTING or OPEN), with a key in the registry, schedules exactly one reconnect
C5_AbnormalCloseReconnectsOnce ==
    [][(last'.op = "close" /\ ReadyState(last'.sock) \in {CONNECTING, OPEN}
            /\ DOMAIN keys # {}) =>
          reconnects' = reconnects + 1]_vars

\* the messages of the frame an open event sent
OpenFrameMsgs == last'.sent[1].frame.msgs

\* C6: an open event sends one frame on its socket, an array whose first
\* message is connect with the token auth() resolved with for this socket and
\* whose other messages are one track per key of the registry at that moment
C6_OpenSendsConnectAndTracks ==
    [][last'.op = "open" =>
          /\ Len(last'.sent) = 1
          /\ last'.sent[1].sock = last'.sock
          /\ last'.sent[1].frame.array
          /\ Len(OpenFrameMsgs) = 1 + Cardinality(DOMAIN keys)
          /\ OpenFrameMsgs[1] = [_type |-> "connect", key |-> socks[last'.sock].auth]
          /\ \A i \in 2..Len(OpenFrameMsgs) : OpenFrameMsgs[i]._type = "track"
          /\ {OpenFrameMsgs[i].key : i \in 2..Len(OpenFrameMsgs)} = DOMAIN keys]_vars

\* C6 witness: the first socket, asked for by the first subscribe when the
\* registry had one key, opened with two keys in the registry
C6_Witness ==
    /\ last.op = "open" /\ last.sock = 1
    /\ Len(last.sent[1].frame.msgs) = 3
    /\ Cardinality(DOMAIN keys) = 2

\* whether the last handler dispatched a parsed message, and the message
Dispatched == last.op \in {"message", "loadend"} /\ Parses(last.text)
LastMsg == Parse(last.text)

C8_ErrorTextIsMsgAndCode ==
    (Dispatched /\ "error" \in DOMAIN LastMsg /\ error) =>
        /\ last.errs = <<LastMsg.error.msg \o " (" \o ToString(LastMsg.error.code) \o ")">>
        /\ last.calls = <<>>

\* C8 amended: the text is "Websocket failed: <msg> (<code>)", handed once to
\* the error callback when the instance has one; no subscription callback is
\* called even when the key is registered
C8_ErrorTextIsPrefixed ==
    (Dispatched /\ "error" \in DOMAIN LastMsg) =>
        /\ error => last.errs = <<"Websocket failed: " \o LastMsg.error.msg \o " ("
                                   \o ToString(LastMsg.error.code) \o ")">>
        /\ ~error => last.errs = <<>>
        /\ last.calls = <<>>

\* C8 witness: an error message for a registered key reached the error callback
C8_Witness ==
    /\ Dispatched /\ "error" \in DOMAIN LastMsg
    /\ LastMsg.key \in DOMAIN keys
    /\ last.errs = <<"Websocket failed: nope (403)">>

\* C9 as claimed: unsubscribe(key, callback) called again right after it
\* returned true returns false
C9_SecondUnsubscribeFalse ==
    [][(last.op = "unsubscribe" /\ last.ret = "true" /\ last'.op = "unsubscribe"
            /\ last'.key = last.key /\ last'.cb = last.cb) =>
          last'.ret = "false"]_vars

\* C10 as claimed: when auth() rejects, the error callback is called once, no
\* socket is created and no connection exists
C10_AuthFailureReported ==
    [][(last'.op = "authReject" /\ error) =>
          /\ Len(last'.errs) = 1
          /\ socks' = socks
          /\ (~Truthy(socket') \/ ReadyState(socket') = CLOSED)]_vars

\* no socket is live and no open attempt is in flight
Idle ==
    /\ authPending = 0 /\ reconnects = 0
    /\ \A s \in DOMAIN socks : ReadyState(s) = CLOSED

\* C11 as claimed: once auth() has rejected and left the instance with no
\* socket and no open attempt in flight, a subscribe call starts a new open
\* sequence: it calls auth() again
C11_SubscribeAfterAuthFailureOpens ==
    [][(supported /\ last.op = "authReject" /\ Idle /\ last'.op = "subscribe") =>
          authPending' = authPending + 1]_vars

\* C12 as claimed: while the connection is Open the interval that sends the
\* keepalive ping is set, also on a connection opened by a reconnect
C12_OpenHasKeepalive == ConnOpen => (ping # 0 /\ ping \in intervals)

\* C13 as claimed: a text that is not "authorized", not "pong" and not JSON
\* throws nothing out of the message handler or the loadend listener
C13_MalformedNeverThrows ==
    (last.op \in {"message", "loadend"} /\ last.text \notin {"authorized", "pong"}
        /\ ~Parses(last.text)) => ~last.threw

\* C16 as claimed: the reconnect timer firing when the registry is empty
\* opens nothing: it does not call auth(), and no timer is set
C16_ReconnectStopsWhenEmpty ==
    [][(last'.op = "reconnect" /\ DOMAIN keys = {}) =>
          (authPending' = authPending /\ reconnects' = 0 /\ socks' = socks)]_vars

\* the sockets created whose close event has not been delivered
Live == {s \in DOMAIN socks : ReadyState(s) # CLOSED}

\* C14: at most one socket is live, and it is this.socket: no socket is
\* created while another is connecting, open or closing
C14_AtMostOneLiveSocket ==
    /\ Cardinality(Live) <= 1
    /\ \A s \in Live : socket = s

\* C14 witness: a second socket was created, the first one closed
C14_Witness ==
    /\ last.op = "authResolve" /\ last.sock = 2
    /\ Live = {2} /\ ReadyState(1) = CLOSED

\* C15: auth() resolving when the registry is empty still creates the socket
\* and makes it this.socket; a live socket is always this.socket; and an
\* unsubscribe that empties the registry while this.socket is connecting or
\* open closes it with code 1000
C15_StrayConnectionOpenedThenClosed ==
    [][/\ (last'.op = "authResolve" /\ supported /\ DOMAIN keys = {}) =>
             /\ Len(socks') = Len(socks) + 1
             /\ socket' = Len(socks')
             /\ socks'[socket'].readyState = CONNECTING
       /\ \A s \in Live : socket = s
       /\ (last'.op = "unsubscribe" /\ DOMAIN keys # {} /\ DOMAIN keys' = {}
             /\ Truthy(socket) /\ ReadyState(socket) \in {CONNECTING, OPEN}) =>
             /\ socks'[socket].readyState = CLOSING
             /\ last'.sock = socket /\ last'.code = NormalClosure
             /\ close']_vars

\* C15 witness: the auth() the first subscribe called resolved after every
\* subscription was removed, and the first socket was created
C15_Witness ==
    /\ last.op = "authResolve" /\ last.sock = 1 /\ Len(socks) = 1
    /\ DOMAIN keys = {} /\ \A k \in Keys : registered[k] = 0
    /\ socket = 1 /\ ReadyState(1) = CONNECTING

\* C17: while the connection is Open, the keys the backend has been told to
\* track on this.socket and not told to untrack since are exactly the keys of
\* the registry
C17_TrackedIsRegistry == ConnOpen => socks[socket].tracked = DOMAIN keys

\* C17 witness: on an Open connection tracking two keys, the one registered
\* last was untracked and the other is still tracked
C17_Witness ==
    /\ ConnOpen /\ last.op = "unsubscribe"
    /\ Len(last.sent) = 1 /\ last.sent[1].frame.msgs[1]._type = "untrack"
    /\ socks[socket].tracked = DOMAIN keys
    /\ DOMAIN keys # {} /\ keyOrder[1] # last.key

\* C18: the first frame sent on a socket is the array beginning with connect:
\* nothing is sent on a socket before its open event, and the first message
\* that went out on a socket that has opened is connect
C18_ConnectIsFirstFrame ==
    \A s \in DOMAIN socks :
        /\ socks[s].first \in {"none", "connect"}
        /\ (socks[s].first = "none") <=> ~socks[s].opened
        /\ socks[s].opened \/ socks[s].tracked = {}

\* C18 witness: a ping went out on a socket whose first message was connect
C18_Witness ==
    /\ last.op = "ping" /\ Len(last.sent) = 1
    /\ socks[last.sent[1].sock].first = "connect"

\* ------------------------------------------ a host where opening never fails
\* WebSocket is supported and auth() never rejects
InitReliable == Init /\ supported

NextReliable ==
    \/ \E k \in Keys, cb \in Callbacks : Subscribe(k, cb)
    \/ \E k \in Keys, cb \in Callbacks : Unsubscribe(k, cb)
    \/ \E t \in Tokens : AuthResolve(t)
    \/ \E h \in intervals : PingTick(h)
    \/ Reconnect
    \/ \E s \in DOMAIN socks : SockOpen(s)
    \/ \E s \in DOMAIN socks : SockClose(s)
    \/ \E s \in DOMAIN socks, t \in Texts : SockMessage(s, t)
    \/ \E s \in DOMAIN socks, t \in BlobTexts : SockBlob(s, t)
    \/ \E t \in readers : LoadEnd(t)

SpecReliable == InitReliable /\ [][NextReliable]_vars

\* C19 as claimed: on such a host, whenever the registry is not empty a socket
\* is connecting or open, or auth() is pending, or a reconnect timer is set
C19_NeverStranded ==
    DOMAIN keys # {} =>
        \/ \E s \in DOMAIN socks : ReadyState(s) \in {CONNECTING, OPEN}
        \/ authPending > 0
        \/ reconnects > 0

\* the particular case C19 names: after a subscribe made while this.socket was
\* closing, the close event of that socket leaves an open attempt in flight
SubscribeWhileClosingTracked ==
    [][(last.op = "subscribe" /\ Truthy(socket) /\ ReadyState(socket) = CLOSING
            /\ last'.op = "close" /\ last'.sock = socket) =>
          (authPending' > 0 \/ reconnects' > 0)]_vars

\* ------------------------------------- callbacks that call unsubscribe
\* The loop "for(const f of _this.keys[msg.key]) f(msg.data)" step by step:
\* iter is the array iterator (the key whose list it walks, the index of the
\* entry it calls next), the data, the list when the frame arrived, the
\* callbacks called so far and those unsubscribed since the frame arrived.
\* No other handler runs while the loop does.
Dispatching == iter.i # 0
\* the array the iterator walks: unsubscribe splices it in place, and has
\* emptied it when it deletes the key
IterList == IF iter.key \in DOMAIN keys THEN keys[iter.key] ELSE <<>>

\* _sockMessage with a data message of a registered key: handleMsg enters
\* its loop
DispatchStart(sock, text) ==
    /\ ~Dispatching
    /\ sock \in DOMAIN socks
    /\ Receiving(sock)
    /\ Parses(text)
    /\ "error" \notin DOMAIN Parse(text)
    /\ Parse(text).key \in DOMAIN keys
    /\ iter' = [key |-> Parse(text).key, data |-> Parse(text).data, i |-> 1,
                arrived |-> keys[Parse(text).key], calls |-> <<>>, removed |-> {}]
    /\ last' = Did("message", NoKey, "", 0, text)
    /\ UNCHANGED <<keys, keyOrder, close, ping, socket, error, supported, socks,
                   intervals, authPending, reconnects, readers, registered>>

\* the loop calls its next callback, which returns
DispatchCall ==
    /\ Dispatching
    /\ iter.i <= Len(IterList)
    /\ iter' = [iter EXCEPT !.i = @ + 1, !.calls = Append(@, IterList[iter.i])]
    /\ UNCHANGED <<keys, keyOrder, close, ping, socket, error, supported, socks,
                   intervals, authPending, reconnects, readers, registered, last>>

\* the loop calls its next callback, which calls unsubscribe(key, callback)
\* for the key of the message, and returns
DispatchUnsub(callback) ==
    /\ Dispatching
    /\ iter.i <= Len(IterList)
    /\ Unsubscribed(iter.key, callback)
    /\ iter' = [iter EXCEPT !.i = @ + 1, !.calls = Append(@, IterList[iter.i]),
                            !.removed = IF Found(iter.key, callback)
                                        THEN @ \cup {callback} ELSE @]

\* the iterator is past the end of the array: the loop and the handler end
DispatchEnd ==
    /\ Dispatching
    /\ iter.i > Len(IterList)
    /\ iter' = NoIter
    /\ last' = [Did("dispatched", iter.key, "", 0, NoText) EXCEPT
                   !.calls = [j \in 1..Len(iter.calls) |->
                                 [cb |-> iter.calls[j], data |-> iter.data]]]
    /\ UNCHANGED <<keys, keyOrder, close, ping, socket, error, supported, socks,
                   intervals, authPending, reconnects, readers, registered>>

NextReentrant ==
    \/ ~Dispatching /\ \E k \in Keys, cb \in Callbacks : Subscribe(k, cb)
    \/ ~Dispatching /\ \E k \in Keys, cb \in Callbacks : Unsubscribe(k, cb)
    \/ ~Dispatching /\ \E t \in Tokens : AuthResolve(t)
    \/ ~Dispatching /\ AuthReject
    \/ ~Dispatching /\ \E h \in intervals : PingTick(h)
    \/ ~Dispatching /\ Reconnect
    \/ ~Dispatching /\ \E s \in DOMAIN socks : SockOpen(s)
    \/ ~Dispatching /\ \E s \in DOMAIN socks : SockClose(s)
    \/ ~Dispatching /\ \E s \in DOMAIN socks, t \in Texts : SockMessage(s, t)
    \/ \E s \in DOMAIN socks, t \in Texts : DispatchStart(s, t)
    \/ DispatchCall
    \/ \E cb \in Callbacks : DispatchUnsub(cb)
    \/ DispatchEnd

SpecReentrant == Init /\ [][NextReentrant]_vars

\* how many entries of the list are the callback
Count(list, cb) == Cardinality({j \in 1..Len(list) : list[j] = cb})

\* C20 as claimed: when the loop ends, every callback that was in the key's
\* list when the frame arrived and was not unsubscribed since has been called
\* once for each of its entries, whatever the callbacks unsubscribed
C20_ReentrantUnsubscribeSkipsNone ==
    (Dispatching /\ iter.i > Len(IterList)) =>
        \A cb \in Callbacks :
            cb \notin iter.removed => Count(iter.calls, cb) = Count(iter.arrived, cb)

====
